---- MODULE Spec2Model ----
(***************************************************************************)
(* The telnet option-negotiation engine MuTelnet of src/src/lib.rs as a    *)
(* state machine.  Strings and byte buffers are sequences of byte values.  *)
(***************************************************************************)
EXTENDS Integers, Sequences, FiniteSets, TLC

(* ---------------- protocol bytes (lib.rs 9-52) ------------------------- *)
NULL == 0
CR == 13
LF == 10
NOP == 241
WILL == 251
WONT == 252
DO == 253
DONT == 254
NAWS == 31
MCCP2 == 86
TTYPE == 24
SPACE == 32

(* ---------------- bounds of the model ---------------------------------- *)
\* at most MaxTracked option codes are put in the registry
MaxTracked == 1

(* ---------------- string literals of the source, as bytes -------------- *)
S_UNKNOWN == <<85,78,75,78,79,87,78>>
S_ATLANTIS == <<65,84,76,65,78,84,73,83>>
S_CMUD == <<67,77,85,68>>
S_KILDCLIENT == <<75,73,76,68,67,76,73,69,78,84>>
S_MUDLET == <<77,85,68,76,69,84>>
S_MUSHCLIENT == <<77,85,83,72,67,76,73,69,78,84>>
S_PUTTY == <<80,85,84,84,89>>
S_BEIP == <<66,69,73,80>>
S_POTATO == <<80,79,84,65,84,79>>
S_TINYFUGUE == <<84,73,78,89,70,85,71,85,69>>
S_XTERM == <<88,84,69,82,77>>
S_256COLOR == <<45,50,53,54,67,79,76,79,82>>
S_MTTS == <<77,84,84,83,32>>

(* ---------------- std string functions the source calls ---------------- *)
starts_with(s, p) ==
    /\ Len(s) >= Len(p)
    /\ SubSeq(s, 1, Len(p)) = p

ends_with(s, p) ==
    /\ Len(s) >= Len(p)
    /\ SubSeq(s, Len(s) - Len(p) + 1, Len(s)) = p

contains(s, b) == \E i \in 1..Len(s) : s[i] = b

\* str::replace(s, [from], to) for a one-byte pattern
RECURSIVE replace(_, _, _)
replace(s, from, to) ==
    IF s = <<>> THEN <<>>
    ELSE (IF Head(s) = from THEN to ELSE <<Head(s)>>) \o replace(Tail(s), from, to)

IsWhite(b) == b \in {9, 10, 11, 12, 13, 32}

RECURSIVE trim_start(_)
trim_start(s) ==
    IF s # <<>> /\ IsWhite(Head(s)) THEN trim_start(Tail(s)) ELSE s

RECURSIVE trim_end(_)
trim_end(s) ==
    IF s # <<>> /\ IsWhite(s[Len(s)]) THEN trim_end(SubSeq(s, 1, Len(s) - 1)) ELSE s

trim(s) == trim_end(trim_start(s))

to_uppercase(s) == [i \in 1..Len(s) |-> IF s[i] >= 97 /\ s[i] <= 122 THEN s[i] - 32 ELSE s[i]]

\* String::from_utf8: every ASCII buffer is valid; a buffer holding 0xFF never is.
\* The inputs hold ASCII bytes and 0xFF only.
from_utf8_ok(data) == \A i \in 1..Len(data) : data[i] < 128

\* position of the first byte b in s, 0 when there is none
FirstIndex(s, b) ==
    IF contains(s, b) THEN CHOOSE i \in 1..Len(s) : s[i] = b /\ \A j \in 1..(i-1) : s[j] # b
    ELSE 0

\* str::splitn(n, " "): at most n parts, the last one the unsplit rest
RECURSIVE splitn(_, _, _)
splitn(s, n, b) ==
    IF n = 0 THEN <<>>
    ELSE IF n = 1 \/ ~contains(s, b) THEN <<s>>
    ELSE <<SubSeq(s, 1, FirstIndex(s, b) - 1)>>
            \o splitn(SubSeq(s, FirstIndex(s, b) + 1, Len(s)), n - 1, b)

IsDigit(b) == b >= 48 /\ b <= 57

RECURSIVE DecValue(_)
DecValue(s) == IF s = <<>> THEN 0 ELSE 10 * DecValue(SubSeq(s, 1, Len(s) - 1)) + (s[Len(s)] - 48)

\* value.parse::<usize>().unwrap_or(0): an optional '+', then digits only.
\* The inputs keep the digit strings short, far below usize::MAX.
parse_or_0(s) ==
    LET digits == IF s # <<>> /\ Head(s) = 43 THEN Tail(s) ELSE s
    IN  IF digits # <<>> /\ \A i \in 1..Len(digits) : IsDigit(digits[i])
        THEN DecValue(digits) ELSE 0

\* (bit & mtts) == bit, for bit a power of two
BitSet(bit, mtts) == (mtts \div bit) % 2 = 1

(* ---------------- data model (lib.rs 54-128) ---------------------------- *)
TelnetOptionPerspective == [enabled |-> FALSE, negotiating |-> FALSE]

TelnetOptionState == [remote |-> TelnetOptionPerspective, local |-> TelnetOptionPerspective]

TelnetConfig ==
    [client_name |-> S_UNKNOWN, client_version |-> S_UNKNOWN, encoding |-> "ascii",
     color |-> 0, width |-> 78, height |-> 24, oob |-> FALSE, screen_reader |-> FALSE]

TelnetHandshakes == [local |-> {}, remote |-> {}, ttype |-> {}]

\* telnet_codec::TelnetEvent, the three variants the engine queues
Negotiate(command, op) == [type |-> "Negotiate", command |-> command, op |-> op, data |-> <<>>]

SubNegotiate(op, data) == [type |-> "SubNegotiate", command |-> 0, op |-> op, data |-> data]

Data(data) == [type |-> "Data", command |-> 0, op |-> 0, data |-> data]

VARIABLES
    telnet_options,   \* the registry: option code -> TelnetOption
    op_state,         \* option code -> TelnetOptionState
    config,           \* TelnetConfig
    handshakes_left,  \* TelnetHandshakes
    ttype_count,
    ttype_last,       \* <<>> is None, <<s>> is Some(s)
    send_events,      \* the outbound queue
    panicked,         \* a call aborted (index out of bounds)
    call,             \* the last call made on the engine, with its result
    started           \* start() has been called

vars == <<telnet_options, op_state, config, handshakes_left, ttype_count, ttype_last,
          send_events, panicked, call, started>>

\* the engine as one value, for the methods below
Self ==
    [telnet_options |-> telnet_options, op_state |-> op_state, config |-> config,
     handshakes_left |-> handshakes_left, ttype_count |-> ttype_count,
     ttype_last |-> ttype_last, send_events |-> send_events, panicked |-> panicked]

\* send_events.push(ev)
push(self, ev) == [self EXCEPT !.send_events = Append(@, ev)]

\* a method's outcome: the engine after it and the value it returns
Outcome(self, ret) == [self |-> self, ret |-> ret]

(* ---------------- MuTelnet::start (lib.rs 143-171) ---------------------- *)
\* the orders in which a HashSet of codes may be iterated
Orders(S) == {f \in [1..Cardinality(S) -> S] : \A x \in S : \E i \in DOMAIN f : f[i] = x}

start_local_set(self) == {op \in DOMAIN self.telnet_options : self.telnet_options[op].start_local}

start_remote_set(self) == {op \in DOMAIN self.telnet_options : self.telnet_options[op].start_remote}

\* the first loop: every registry entry gets a fresh state, the requested sides
\* are marked negotiating and entered in handshakes_left
start_mark(self) ==
    LET reg == self.telnet_options
        fresh(op) == [remote |-> [enabled |-> FALSE, negotiating |-> reg[op].start_remote],
                      local  |-> [enabled |-> FALSE, negotiating |-> reg[op].start_local]]
    IN  [self EXCEPT
            !.op_state = [op \in (DOMAIN self.op_state) \cup (DOMAIN reg) |->
                            IF op \in DOMAIN reg THEN fresh(op) ELSE self.op_state[op]],
            !.handshakes_left.remote = @ \cup start_remote_set(self),
            !.handshakes_left.local = @ \cup start_local_set(self)]

\* the two sending loops: WILL for each start_local code, then DO for each
\* start_remote code, each set in the order lorder / rorder
\* mutation: the two verbs exchanged
start_send_mut(self, lorder, rorder) ==
    [self EXCEPT !.send_events =
        @ \o [i \in 1..Len(lorder) |-> Negotiate(DO, lorder[i])]
          \o [i \in 1..Len(rorder) |-> Negotiate(WILL, rorder[i])]]

start_send(self, lorder, rorder) ==
    [self EXCEPT !.send_events =
        @ \o [i \in 1..Len(lorder) |-> Negotiate(WILL, lorder[i])]
          \o [i \in 1..Len(rorder) |-> Negotiate(DO, rorder[i])]]

start(self, lorder, rorder) == start_send(start_mark(self), lorder, rorder)

(* ---------------- outbound text helpers (lib.rs 173-194) ---------------- *)
format_string(in_str) == replace(replace(in_str, CR, <<>>), LF, <<CR, LF>>)

send_text(self, in_str) == push(self, Data(format_string(in_str)))

\* mutation: the terminator appended without the ends_with test
send_line_mut(self, in_str) == push(self, Data(format_string(in_str) \o <<CR, LF>>))

send_line(self, in_str) ==
    LET cleaned == format_string(in_str)
    IN  push(self, Data(IF ends_with(cleaned, <<CR, LF>>) THEN cleaned ELSE cleaned \o <<CR, LF>>))

send_prompt(self, in_str) == send_line(self, in_str)

(* ---------------- hooks (lib.rs 311-367, 389-393) ----------------------- *)
request_ttype(self) == push(self, SubNegotiate(TTYPE, <<1>>))

\* mutation: the terminal-type request is sent for every option but terminal-type
enable_remote_mut(self, op) ==
    Outcome(IF op # TTYPE THEN request_ttype(self) ELSE self, FALSE)

enable_remote(self, op) ==
    Outcome(IF op = TTYPE THEN request_ttype(self) ELSE self, FALSE)

\* mutation: the window-size arm reports a change without resetting the size
disable_remote_mut(self, op) ==
    IF op = NAWS THEN Outcome(self, TRUE)
    ELSE IF op = TTYPE THEN Outcome([self EXCEPT !.handshakes_left.ttype = {}], FALSE)
    ELSE Outcome(self, FALSE)

disable_remote(self, op) ==
    IF op = NAWS
    THEN Outcome([self EXCEPT !.config.width = 78, !.config.height = 24], TRUE)
    ELSE IF op = TTYPE
    THEN Outcome([self EXCEPT !.handshakes_left.ttype = {}], FALSE)
    ELSE Outcome(self, FALSE)

enable_local(self, op) == Outcome(self, FALSE)

disable_local(self, op) == Outcome(self, FALSE)

(* ---------------- MuTelnet::receive_negotiate (lib.rs 196-309) ---------- *)
\* the local variables of receive_negotiate, with the option's state
Locals(state) ==
    [state |-> state, respond |-> 0, handshake |-> 0,
     handshake_local |-> 0, handshake_remote |-> 0,
     enable_local |-> FALSE, disable_local |-> FALSE,
     enable_remote |-> FALSE, disable_remote |-> FALSE]

\* mutation: the test of remote.enabled left out
on_WILL_mut(state, op) ==
    [Locals(state) EXCEPT
        !.respond = IF state.remote.negotiating THEN 0 ELSE DO,
        !.handshake = op, !.handshake_remote = op, !.enable_remote = TRUE,
        !.state.remote = [enabled |-> TRUE, negotiating |-> FALSE]]

on_WILL(state, op) ==
    IF ~state.remote.enabled
    THEN [Locals(state) EXCEPT
            !.respond = IF state.remote.negotiating THEN 0 ELSE DO,
            !.handshake = op, !.handshake_remote = op, !.enable_remote = TRUE,
            !.state.remote = [enabled |-> TRUE, negotiating |-> FALSE]]
    ELSE Locals(state)

\* mutation: the refusal leaves remote.negotiating as it was
on_WONT_mut(state, op) ==
    [Locals(state) EXCEPT
        !.handshake = IF state.remote.negotiating THEN op ELSE 0,
        !.handshake_remote = IF state.remote.negotiating THEN op ELSE 0,
        !.disable_remote = state.remote.enabled,
        !.state.remote = [enabled |-> FALSE, negotiating |-> state.remote.negotiating]]

on_WONT(state, op) ==
    [Locals(state) EXCEPT
        !.handshake = IF state.remote.negotiating THEN op ELSE 0,
        !.handshake_remote = IF state.remote.negotiating THEN op ELSE 0,
        !.disable_remote = state.remote.enabled,
        !.state.remote = [enabled |-> FALSE, negotiating |-> FALSE]]

on_DO(state, op) ==
    IF ~state.local.enabled
    THEN [Locals(state) EXCEPT
            !.respond = IF state.local.negotiating THEN 0 ELSE WILL,
            !.handshake = op, !.handshake_local = op, !.enable_local = TRUE,
            !.state.local = [enabled |-> TRUE, negotiating |-> FALSE]]
    ELSE Locals(state)

on_DONT(state, op) ==
    [Locals(state) EXCEPT
        !.handshake = IF state.local.negotiating THEN op ELSE 0,
        !.handshake_local = IF state.local.negotiating THEN op ELSE 0,
        !.disable_local = state.local.enabled,
        !.state.local = [enabled |-> FALSE, negotiating |-> FALSE]]

\* the match on the command for an option that has a state
match_command(state, command, op) ==
    IF command = WILL THEN on_WILL(state, op)
    ELSE IF command = WONT THEN on_WONT(state, op)
    ELSE IF command = DO THEN on_DO(state, op)
    ELSE IF command = DONT THEN on_DONT(state, op)
    ELSE Locals(state)

\* mutation: the two refusals exchanged
refuse_mut(command) ==
    IF command = WILL THEN WONT
    ELSE IF command = DO THEN DONT
    ELSE 0

\* the else branch: no state for this option
refuse(command) ==
    IF command = WILL THEN DONT
    ELSE IF command = DO THEN WONT
    ELSE 0

\* mutation: insert in place of remove
handshake_done_mut(self, l) ==
    LET s1 == IF l.handshake_local > 0
              THEN [self EXCEPT !.handshakes_left.local = @ \cup {l.handshake_local}] ELSE self
    IN  IF l.handshake_remote > 0
        THEN [s1 EXCEPT !.handshakes_left.remote = @ \cup {l.handshake_remote}] ELSE s1

\* lines 287-292: a settled handshake leaves handshakes_left; 0 stands for none
handshake_done(self, l) ==
    LET s1 == IF l.handshake_local > 0
              THEN [self EXCEPT !.handshakes_left.local = @ \ {l.handshake_local}] ELSE self
    IN  IF l.handshake_remote > 0
        THEN [s1 EXCEPT !.handshakes_left.remote = @ \ {l.handshake_remote}] ELSE s1

\* lines 282-308: reply, handshake bookkeeping, hooks; l holds the locals
respond_and_hooks(self, op, l) ==
    LET s1 == IF l.respond > 0 THEN push(self, Negotiate(l.respond, op)) ELSE self
        s3 == handshake_done(s1, l)
        o4 == IF l.enable_local THEN enable_local(s3, op) ELSE Outcome(s3, FALSE)
        o5 == IF l.disable_local THEN disable_local(o4.self, op) ELSE o4
        o6 == IF l.enable_remote THEN enable_remote(o5.self, op) ELSE o5
        o7 == IF l.disable_remote THEN disable_remote(o6.self, op) ELSE o6
    IN  o7

receive_negotiate(self, command, op) ==
    IF op \in DOMAIN self.op_state
    THEN LET l == match_command(self.op_state[op], command, op)
         IN  respond_and_hooks([self EXCEPT !.op_state[op] = l.state], op, l)
    ELSE respond_and_hooks(self, op, [Locals(TelnetOptionState) EXCEPT !.respond = refuse(command)])

(* ---------------- window size (lib.rs 551-560) -------------------------- *)
\* mutation: little-endian
get_u16_mut(data, at) == (data[at + 1] * 256 + data[at]) % 65536

\* Buf::get_u16: two bytes, big-endian
get_u16(data, at) == (data[at] * 256 + data[at + 1]) % 65536

\* mutation: the new size is stored but no change is reported
receive_naws_mut(self, data) ==
    IF Len(data) >= 4
    THEN Outcome([self EXCEPT !.config.width = get_u16(data, 1),
                              !.config.height = get_u16(data, 3)], FALSE)
    ELSE Outcome(self, FALSE)

receive_naws(self, data) ==
    IF Len(data) >= 4
    THEN LET width == get_u16(data, 1)
             height == get_u16(data, 3)
         IN  Outcome([self EXCEPT !.config.width = width, !.config.height = height],
                     ~((self.config.width = width) /\ (self.config.height = height)))
    ELSE Outcome(self, FALSE)

(* ---------------- terminal type (lib.rs 395-549) ------------------------ *)
raise_color(self, level) ==
    IF self.config.color < level THEN [self EXCEPT !.config.color = level] ELSE self

KnownClients ==
    {S_ATLANTIS, S_CMUD, S_KILDCLIENT, S_MUDLET, S_MUSHCLIENT, S_PUTTY, S_BEIP,
     S_POTATO, S_TINYFUGUE}

\* lines 473-492: colour deduced from the client name
deduce_color(self) ==
    IF self.config.client_name \in KnownClients THEN raise_color(self, 2)
    ELSE IF starts_with(self.config.client_name, S_XTERM)
            \/ ends_with(self.config.client_name, S_256COLOR)
    THEN raise_color(self, 2)
    ELSE self

\* results[1] is read whatever splitn returned: short of two parts the call aborts
receive_ttype_0(self, data) ==
    IF contains(data, SPACE)
    THEN LET results == splitn(data, 1, SPACE)
             s1 == [self EXCEPT !.config.client_name = results[1]]
         IN  IF Len(results) < 2
             THEN [s1 EXCEPT !.panicked = TRUE]
             ELSE deduce_color([s1 EXCEPT !.config.client_version = results[2]])
    ELSE deduce_color([self EXCEPT !.config.client_name = data])

receive_ttype_1(self, data) ==
    LET s1 == IF starts_with(data, S_XTERM) \/ ends_with(data, S_256COLOR)
              THEN raise_color(self, 2) ELSE self
    IN  [s1 EXCEPT !.handshakes_left.ttype = @ \ {1}]

receive_ttype_2(self, data) ==
    IF ~starts_with(data, S_MTTS) THEN self
    ELSE LET results == splitn(data, 2, SPACE)
         IN  IF Len(results) < 2 THEN [self EXCEPT !.panicked = TRUE]
             ELSE LET mtts == parse_or_0(results[2])
                      s1 == IF BitSet(1, mtts) THEN raise_color(self, 1) ELSE self
                      s2 == IF BitSet(4, mtts) THEN [s1 EXCEPT !.config.encoding = "utf8"] ELSE s1
                      s3 == IF BitSet(8, mtts) THEN raise_color(s2, 2) ELSE s2
                      s4 == IF BitSet(64, mtts) THEN [s3 EXCEPT !.config.screen_reader = TRUE] ELSE s3
                  IN  IF mtts = 0 THEN self
                      ELSE [s4 EXCEPT !.handshakes_left.ttype = @ \ {2}]

\* the arm for ttype_count = 0 (lines 415-422)
ttype_round_0(self, upper) ==
    LET s1 == receive_ttype_0([self EXCEPT !.ttype_last = <<upper>>], upper)
    IN  IF s1.panicked THEN Outcome(s1, FALSE)
        ELSE Outcome(request_ttype([s1 EXCEPT !.ttype_count = (@ + 1) % 256,
                                              !.handshakes_left.ttype = @ \ {0}]), TRUE)

\* the arm for ttype_count = 1 or 2 (lines 423-452)
ttype_round_1_2(self, upper) ==
    IF self.ttype_last = <<>> THEN Outcome(self, FALSE)
    ELSE IF self.ttype_last[1] = upper
    THEN Outcome([self EXCEPT !.handshakes_left.ttype = {}, !.ttype_last = <<>>], FALSE)
    ELSE IF self.ttype_count = 1
    THEN Outcome([receive_ttype_1(self, upper) EXCEPT !.ttype_last = <<upper>>], TRUE)
    ELSE LET s1 == receive_ttype_2(self, upper)
         IN  IF s1.panicked THEN Outcome(s1, FALSE)
             ELSE Outcome([s1 EXCEPT !.ttype_last = <<>>, !.handshakes_left.ttype = {}], TRUE)

\* mutation: the test of the pending rounds left out
ttype_accepts_mut(self, data) ==
    /\ ~(Len(data) < 2)
    /\ ~(data[1] # 0)

\* the guards of lines 397-407: is the reply looked at at all
ttype_accepts(self, data) ==
    /\ ~(Len(data) < 2)
    /\ ~(self.handshakes_left.ttype = {})
    /\ ~(data[1] # 0)

receive_ttype(self, data) ==
    IF ~ttype_accepts(self, data) THEN Outcome(self, FALSE)
    ELSE IF ~from_utf8_ok(Tail(data)) THEN Outcome(self, FALSE)
    ELSE LET upper == to_uppercase(trim(Tail(data)))
         IN  IF self.ttype_count = 0 THEN ttype_round_0(self, upper)
             ELSE IF self.ttype_count \in {1, 2} THEN ttype_round_1_2(self, upper)
             ELSE Outcome(self, FALSE)

(* ---------------- MuTelnet::handle_sub (lib.rs 369-387) ----------------- *)
handle_sub(self, op, data) ==
    IF op \notin DOMAIN self.op_state THEN Outcome(self, FALSE)
    ELSE IF op = NAWS THEN receive_naws(self, data)
    ELSE IF op = TTYPE THEN receive_ttype(self, data)
    ELSE Outcome(self, FALSE)

(* ---------------- inputs ------------------------------------------------ *)
\* the option codes a registry may hold; MCCP2 is never registered
RegCodes == {NULL, TTYPE, NAWS}

Options == RegCodes \cup {MCCP2}

Commands == {WILL, WONT, DO, DONT, NOP}

\* TelnetOption values: both sides requested, remote only, local only, passive
Postures ==
    {[allow_local |-> TRUE, allow_remote |-> TRUE, start_local |-> TRUE, start_remote |-> TRUE],
     [allow_local |-> FALSE, allow_remote |-> TRUE, start_local |-> FALSE, start_remote |-> TRUE],
     [allow_local |-> TRUE, allow_remote |-> FALSE, start_local |-> TRUE, start_remote |-> FALSE],
     [allow_local |-> FALSE, allow_remote |-> FALSE, start_local |-> FALSE, start_remote |-> FALSE]}

Registries ==
    UNION {[S -> Postures] : S \in {T \in SUBSET RegCodes : Cardinality(T) <= MaxTracked}}

P_80x24 == <<0, 80, 0, 24>>
P_256x25 == <<1, 0, 0, 25>>
P_3bytes == <<0, 80, 0>>
P_5bytes == <<0, 78, 0, 24, 9>>
\* "4.10"
S_4_10 == <<52, 46, 49, 48>>
P_MUDLET == <<0>> \o S_MUDLET \o <<SPACE>> \o S_4_10
P_XTERM == <<0>> \o S_XTERM
P_MTTS == <<0>> \o S_MTTS \o <<55, 55>>
P_IS_SEND == <<1>> \o S_XTERM
P_BAD_UTF8 == <<0, 255>>

NawsPayloads == {P_80x24, P_256x25, P_3bytes, P_5bytes}

TtypePayloads == {P_MUDLET, P_XTERM, P_MTTS, P_IS_SEND, P_BAD_UTF8, <<0>>}

\* the (option, payload) pairs handed to handle_sub
SubInputs ==
    ({NAWS} \X NawsPayloads) \cup ({TTYPE} \X TtypePayloads) \cup ({NULL, MCCP2} \X {P_80x24})

\* "x\r\n", "a\r\nb\nc\r", "x\n\n"
Texts == {<<120, CR, LF>>, <<97, CR, LF, 98, LF, 99, CR>>, <<120, LF, LF>>}

(* ---------------- the state machine ------------------------------------- *)
\* a peer's three terminal-type replies, pairwise different, the third "MTTS 77"
TtypeReplies == <<P_MUDLET, P_XTERM, P_MTTS>>

\* how many of TtypeReplies the peer has now sent in a row to an engine whose
\* terminal-type option is remote-enabled; taking events out of the queue does
\* not interrupt the exchange, any other call does
Replies(name, op, data) ==
    IF name = "drain" THEN call.replies
    ELSE IF /\ name = "handle_sub" /\ op = TTYPE
            /\ TTYPE \in DOMAIN op_state /\ op_state[TTYPE].remote.enabled
    THEN IF call.replies < Len(TtypeReplies) /\ data = TtypeReplies[call.replies + 1]
         THEN call.replies + 1
         ELSE IF data = TtypeReplies[1] THEN 1 ELSE 0
    ELSE 0

\* the record of a call: its name, arguments and result, the Capability
\* Record it found, and its place in the terminal-type exchange
Call(name, command, op, data, ret) ==
    [name |-> name, command |-> command, op |-> op, data |-> data, ret |-> ret,
     before |-> config, replies |-> Replies(name, op, data)]

Init ==
    /\ telnet_options \in Registries
    /\ op_state = [op \in {} |-> TelnetOptionState]
    /\ config = TelnetConfig
    /\ handshakes_left = TelnetHandshakes
    /\ ttype_count = 0
    /\ ttype_last = <<>>
    /\ send_events = <<>>
    /\ panicked = FALSE
    /\ call = [name |-> "new", command |-> 0, op |-> 0, data |-> <<>>, ret |-> FALSE,
               before |-> TelnetConfig, replies |-> 0]
    /\ started = FALSE

\* the engine becomes s
Becomes(s) ==
    /\ telnet_options' = s.telnet_options
    /\ op_state' = s.op_state
    /\ config' = s.config
    /\ handshakes_left' = s.handshakes_left
    /\ ttype_count' = s.ttype_count
    /\ ttype_last' = s.ttype_last
    /\ send_events' = s.send_events
    /\ panicked' = s.panicked

\* a call is made on a live engine, after the caller has drained the events the
\* call before queued (the caller's loop: feed one event, drain, feed the next)
Callable == ~panicked /\ send_events = <<>>

\* start() is called once, at session start; methods may be called before it
Start ==
    /\ Callable
    /\ ~started
    /\ \E lorder \in Orders(start_local_set(Self)), rorder \in Orders(start_remote_set(Self)) :
         Becomes(start(Self, lorder, rorder))
    /\ call' = Call("start", 0, 0, <<>>, FALSE)
    /\ started' = TRUE

ReceiveNegotiate ==
    /\ Callable
    /\ \E command \in Commands, op \in Options :
         LET o == receive_negotiate(Self, command, op)
         IN  /\ Becomes(o.self)
             /\ call' = Call("receive_negotiate", command, op, <<>>, o.ret)
    /\ UNCHANGED started

HandleSub ==
    /\ Callable
    /\ \E in \in SubInputs :
         LET o == handle_sub(Self, in[1], in[2])
         IN  /\ Becomes(o.self)
             /\ call' = Call("handle_sub", 0, in[1], in[2], o.ret)
    /\ UNCHANGED started

SendText ==
    /\ Callable
    /\ \E s \in Texts :
         /\ Becomes(send_text(Self, s))
         /\ call' = Call("send_text", 0, 0, s, FALSE)
    /\ UNCHANGED started

SendLine ==
    /\ Callable
    /\ \E s \in Texts :
         /\ Becomes(send_line(Self, s))
         /\ call' = Call("send_line", 0, 0, s, FALSE)
    /\ UNCHANGED started

SendPrompt ==
    /\ Callable
    /\ \E s \in Texts :
         /\ Becomes(send_prompt(Self, s))
         /\ call' = Call("send_prompt", 0, 0, s, FALSE)
    /\ UNCHANGED started

\* the caller takes the queued events out of the public send_events
Drain ==
    /\ send_events # <<>>
    /\ send_events' = <<>>
    /\ call' = Call("drain", 0, 0, <<>>, FALSE)
    /\ UNCHANGED <<telnet_options, op_state, config, handshakes_left, ttype_count,
                   ttype_last, panicked, started>>

Next ==
    \/ Start
    \/ ReceiveNegotiate
    \/ HandleSub
    \/ SendText
    \/ SendLine
    \/ SendPrompt
    \/ Drain

Spec == Init /\ [][Next]_vars

(* ======================= properties ==================================== *)
\* the engine's own fields
Eng == <<telnet_options, op_state, config, handshakes_left, ttype_count, ttype_last,
         send_events, panicked>>

\* this step is a call of the named method
Called(name) == call'.name = name

\* C1 - loop avoidance: WILL for a tracked option whose remote side is enabled,
\* and DO for one whose local side is enabled, appends nothing, changes no
\* field of the engine and returns false.
C1_LoopAvoidance ==
    [][(/\ Called("receive_negotiate")
        /\ call'.op \in DOMAIN op_state
        /\ \/ call'.command = WILL /\ op_state[call'.op].remote.enabled
           \/ call'.command = DO /\ op_state[call'.op].local.enabled)
       => (UNCHANGED Eng /\ call'.ret = FALSE)]_vars

\* a WILL was replayed: the option was never requested by start(), so the WILL
\* that enabled it queued a DO, and this one queued nothing
C1_Witness ==
    /\ started
    /\ call.name = "receive_negotiate" /\ call.command = WILL
    /\ call.op \in DOMAIN op_state
    /\ op_state[call.op].remote.enabled
    /\ ~telnet_options[call.op].start_remote
    /\ send_events = <<>>
    /\ call.ret = FALSE

RefusalFor(command, op) ==
    IF command = DO THEN <<Negotiate(WONT, op)>>
    ELSE IF command = WILL THEN <<Negotiate(DONT, op)>>
    ELSE <<>>

\* C2 - unknown-option refusal: for a code with no registry entry DO is answered
\* by exactly Negotiate(WONT, code), WILL by exactly Negotiate(DONT, code), WONT
\* and DONT by nothing; the call returns false and leaves option state, handshake
\* sets and the Capability Record alone.
C2_UnknownRefusal ==
    [][(/\ Called("receive_negotiate")
        /\ call'.op \notin DOMAIN telnet_options
        /\ call'.command \in {WILL, WONT, DO, DONT})
       => (/\ send_events' = send_events \o RefusalFor(call'.command, call'.op)
           /\ call'.ret = FALSE
           /\ UNCHANGED <<op_state, handshakes_left, config>>)]_vars

C2_Witness ==
    /\ started
    /\ call.name = "receive_negotiate" /\ call.command = DO
    /\ call.op \notin DOMAIN telnet_options
    /\ send_events = <<Negotiate(WONT, call.op)>>
    /\ call.ret = FALSE

\* C3 - handshake monotonicity: once start() has been called, every call leaves
\* each of the three pending sets a subset of what it was.
C3_HandshakeMonotone ==
    [][started => (/\ handshakes_left'.local \subseteq handshakes_left.local
                   /\ handshakes_left'.remote \subseteq handshakes_left.remote
                   /\ handshakes_left'.ttype \subseteq handshakes_left.ttype)]_vars

\* an answer of the peer took a requested option out of the pending set
C3_Witness ==
    /\ started
    /\ call.name = "receive_negotiate"
    /\ call.op \in DOMAIN telnet_options
    /\ telnet_options[call.op].start_remote
    /\ call.op \notin handshakes_left.remote

\* C4 - window-size round trip: a 4-byte payload for the tracked option 31 sets
\* width and height to its two big-endian numbers and returns true exactly when
\* one of them differs from the value held before; the same payload again
\* returns false and changes nothing.
C4_NawsRoundTrip ==
    [][(/\ Called("handle_sub")
        /\ call'.op = NAWS /\ NAWS \in DOMAIN op_state
        /\ Len(call'.data) = 4)
       => LET d == call'.data
              w == 256 * d[1] + d[2]
              h == 256 * d[3] + d[4]
          IN  /\ config'.width = w /\ config'.height = h
              /\ call'.ret = (w # config.width \/ h # config.height)
              /\ (config.width = w /\ config.height = h)
                    => (call'.ret = FALSE /\ config' = config)
              /\ (call.name = "handle_sub" /\ call.op = NAWS /\ call.data = d)
                    => (call'.ret = FALSE /\ config' = config)]_vars

\* the payload [0,80,0,24] was replayed: the size it sets was there already
C4_Witness ==
    /\ call.name = "handle_sub" /\ call.op = NAWS /\ call.data = P_80x24
    /\ NAWS \in DOMAIN op_state
    /\ call.before.width = 80 /\ call.before.height = 24
    /\ config.width = 80 /\ config.height = 24
    /\ call.ret = FALSE

\* C5, as claimed - WONT for window-size resets a changed size to 78x24 and
\* returns true, whether or not the peer had sent WILL before.
C5_Original ==
    [][(/\ Called("receive_negotiate")
        /\ call'.command = WONT /\ call'.op = NAWS
        /\ NAWS \in DOMAIN op_state
        /\ (config.width # 78 \/ config.height # 24))
       => (config'.width = 78 /\ config'.height = 24 /\ call'.ret = TRUE)]_vars

\* C5, amended - with a changed size, WONT for window-size resets it to 78x24 and
\* returns true when the remote side of window-size is enabled; when it is not,
\* the size stays as it is and the call returns false.
C5_Amended ==
    [][(/\ Called("receive_negotiate")
        /\ call'.command = WONT /\ call'.op = NAWS
        /\ NAWS \in DOMAIN op_state
        /\ (config.width # 78 \/ config.height # 24))
       => IF op_state[NAWS].remote.enabled
          THEN config'.width = 78 /\ config'.height = 24 /\ call'.ret = TRUE
          ELSE config' = config /\ call'.ret = FALSE]_vars

\* a changed size was reset by WONT 31
C5_Witness ==
    /\ call.name = "receive_negotiate" /\ call.command = WONT /\ call.op = NAWS
    /\ (call.before.width # 78 \/ call.before.height # 24)
    /\ config.width = 78 /\ config.height = 24
    /\ call.ret = TRUE

\* C6, as claimed - terminal-type round 0: with option 24 tracked and
\* remote-enabled, the first reply [0] "MUDLET 4.10" sets client_name "MUDLET"
\* and client_version "4.10", raises color to 2 or more, queues one more
\* SubNegotiate(24, [1]) and reports a change.
C6_Round0 ==
    [][(/\ Called("handle_sub")
        /\ call'.op = TTYPE /\ call'.data = P_MUDLET
        /\ started
        /\ TTYPE \in DOMAIN op_state
        /\ op_state[TTYPE].remote.enabled
        /\ ttype_count = 0 /\ ttype_last = <<>>)
       => (/\ config'.client_name = S_MUDLET
           /\ config'.client_version = S_4_10
           /\ config'.color >= 2
           /\ send_events' = Append(send_events, SubNegotiate(TTYPE, <<1>>))
           /\ call'.ret = TRUE)]_vars

\* C8 - no operation faults: no call aborts, whatever the sequence of calls.
C8_NoFault == panicked = FALSE

\* a terminal-type reply holding a space was handed to the engine with option
\* 24 remote-enabled, and the call returned
C8_Witness ==
    /\ call.name = "handle_sub" /\ call.op = TTYPE /\ call.data = P_MUDLET
    /\ TTYPE \in DOMAIN op_state
    /\ op_state[TTYPE].remote.enabled
    /\ panicked = FALSE

\* C9, as claimed - receive_negotiate returns true if and only if the
\* Capability Record after the call differs from the one before it.
C9_ReturnsChanged ==
    [][Called("receive_negotiate") => (call'.ret = (config' # config))]_vars

\* the engine as new() leaves it
Fresh ==
    /\ DOMAIN op_state = {}
    /\ config = TelnetConfig
    /\ handshakes_left = TelnetHandshakes
    /\ ttype_count = 0 /\ ttype_last = <<>>
    /\ send_events = <<>>

Occurrences(q, ev) == Cardinality({i \in 1..Len(q) : q[i] = ev})

\* what C10 says of the engine after start()
StartPost ==
    LET reg == telnet_options
        sl == {op \in DOMAIN reg : reg[op].start_local}
        sr == {op \in DOMAIN reg : reg[op].start_remote}
    IN  /\ DOMAIN op_state = DOMAIN reg
        /\ \A op \in DOMAIN reg :
              /\ op_state[op].local.enabled = FALSE
              /\ op_state[op].remote.enabled = FALSE
              /\ op_state[op].local.negotiating = reg[op].start_local
              /\ op_state[op].remote.negotiating = reg[op].start_remote
        /\ handshakes_left.local = sl
        /\ handshakes_left.remote = sr
        /\ \A c \in sl : Occurrences(send_events, Negotiate(WILL, c)) = 1
        /\ \A c \in sr : Occurrences(send_events, Negotiate(DO, c)) = 1
        /\ Len(send_events) = Cardinality(sl) + Cardinality(sr)

\* C10 - start() on a fresh engine: a state with no side enabled for every
\* registry entry, negotiating set exactly for the requested sides, the two
\* pending sets equal to the requested codes, and the queue holding one WILL per
\* start_local code, one DO per start_remote code and nothing else.
C10_Start ==
    [][(Called("start") /\ Fresh) => StartPost']_vars

\* start() ran on a registry that requests both sides
C10_Witness ==
    /\ call.name = "start"
    /\ handshakes_left.local # {} /\ handshakes_left.remote # {}
    /\ Len(send_events) >= 2
\* the bytes of s other than CR
WithoutCR(s) == LET NotCR(b) == b # CR IN SelectSeq(s, NotCR)

\* the payload of the event queued last
LastPayload(q) == q[Len(q)].data

\* exactly one event was appended by this step, a Data event
OneDataAppended ==
    /\ Len(send_events') = Len(send_events) + 1
    /\ SubSeq(send_events', 1, Len(send_events)) = send_events
    /\ send_events'[Len(send_events')].type = "Data"

\* C11, as claimed - send_line appends exactly one Data event whose payload
\* ends with CR LF and never with two consecutive CR LF pairs.
C11_Original ==
    [][Called("send_line")
       => (/\ OneDataAppended
           /\ ends_with(LastPayload(send_events'), <<CR, LF>>)
           /\ ~ends_with(LastPayload(send_events'), <<CR, LF, CR, LF>>))]_vars

\* C11, amended - send_line appends exactly one Data event; its payload is the
\* caller's text with every line end made CR LF (no other CR), followed by one
\* more CR LF only when the text did not end in a line feed; it ends with two
\* CR LF pairs exactly when the caller's text itself ended in two line feeds.
C11_Amended ==
    [][Called("send_line")
       => (/\ OneDataAppended
           /\ LET p == LastPayload(send_events')
                  s == WithoutCR(call'.data)
              IN  /\ WithoutCR(p) = IF ends_with(s, <<LF>>) THEN s ELSE s \o <<LF>>
                  /\ \A i \in 1..Len(p) : p[i] = LF => (i > 1 /\ p[i - 1] = CR)
                  /\ \A i \in 1..Len(p) : p[i] = CR => (i < Len(p) /\ p[i + 1] = LF)
                  /\ ends_with(p, <<CR, LF>>)
                  /\ ends_with(p, <<CR, LF, CR, LF>>) = ends_with(s, <<LF, LF>>))]_vars

\* send_line("x\r\n") queued "x\r\n": the caller's terminator was not doubled
C11_Witness ==
    /\ call.name = "send_line" /\ call.data = <<120, CR, LF>>
    /\ send_events = <<Data(<<120, CR, LF>>)>>
\* the events this step appended to the queue
Appended == SubSeq(send_events', Len(send_events) + 1, Len(send_events'))

\* the Negotiate events among them
NegotiatesAppended == LET IsNeg(ev) == ev.type = "Negotiate" IN SelectSeq(Appended, IsNeg)

\* C12, as claimed - for a tracked option X whose remote side is not enabled,
\* WILL X is answered by Negotiate(DO, X) exactly when remote.negotiating was
\* false; when it was true no Negotiate is sent and the flag is cleared; either
\* way remote.enabled becomes true and X leaves handshakes_left.remote.  The
\* same for DO with the local side, the reply WILL and handshakes_left.local.
C12_Acknowledge ==
    [][(/\ Called("receive_negotiate")
        /\ call'.op \in DOMAIN op_state)
       => LET x == call'.op
          IN  /\ (call'.command = WILL /\ ~op_state[x].remote.enabled)
                 => (/\ NegotiatesAppended =
                            IF op_state[x].remote.negotiating THEN <<>>
                            ELSE <<Negotiate(DO, x)>>
                     /\ op_state'[x].remote.negotiating = FALSE
                     /\ op_state'[x].remote.enabled = TRUE
                     /\ x \notin handshakes_left'.remote)
              /\ (call'.command = DO /\ ~op_state[x].local.enabled)
                 => (/\ NegotiatesAppended =
                            IF op_state[x].local.negotiating THEN <<>>
                            ELSE <<Negotiate(WILL, x)>>
                     /\ op_state'[x].local.negotiating = FALSE
                     /\ op_state'[x].local.enabled = TRUE
                     /\ x \notin handshakes_left'.local)]_vars
\* no request queued by start() is still waiting for the peer's answer
AllAnswered ==
    \A x \in DOMAIN op_state :
        ~op_state[x].remote.negotiating /\ ~op_state[x].local.negotiating

\* C13, as claimed - once start() has run and the peer has answered every
\* request it queued (acknowledgment or refusal), all three pending-handshake
\* sets are empty, for every registered option code.
C13_Settled ==
    (started /\ AllAnswered)
        => handshakes_left = [remote |-> {}, local |-> {}, ttype |-> {}]
\* the negotiating flag of option x on one side, false where x has no state
Negotiating(states, x, side) ==
    x \in DOMAIN states /\ states[x][side].negotiating

\* C14 - for every tracked option and each perspective: negotiating becomes
\* true only in start(); a matching answer (WILL or WONT for remote, DO or
\* DONT for local) leaves it false; once false after start() it stays false;
\* and enabled and negotiating are never both true.
C14_NegotiatingWindow ==
    [][/\ \A x \in DOMAIN op_state' : \A side \in {"remote", "local"} :
            ~(op_state'[x][side].enabled /\ op_state'[x][side].negotiating)
       /\ op_state' # op_state
            => \A x \in DOMAIN op_state' : \A side \in {"remote", "local"} :
                /\ (Negotiating(op_state', x, side) /\ ~Negotiating(op_state, x, side))
                      => Called("start")
                /\ (started /\ ~Negotiating(op_state, x, side))
                      => ~Negotiating(op_state', x, side)
       /\ (Called("receive_negotiate") /\ call'.op \in DOMAIN op_state')
            => /\ call'.command \in {WILL, WONT}
                    => ~op_state'[call'.op].remote.negotiating
               /\ call'.command \in {DO, DONT}
                    => ~op_state'[call'.op].local.negotiating]_vars

\* the peer's WILL answers the DO that start() queued for terminal-type: no
\* reply is sent, only the terminal-type request, and the window is closed
C14_Witness ==
    /\ call.name = "receive_negotiate" /\ call.command = WILL /\ call.op = TTYPE
    /\ TTYPE \in DOMAIN op_state
    /\ telnet_options[TTYPE].start_remote
    /\ op_state[TTYPE].remote = [enabled |-> TRUE, negotiating |-> FALSE]
    /\ send_events = <<SubNegotiate(TTYPE, <<1>>)>>
\* C15, as claimed - when the peer of an engine with terminal-type
\* remote-enabled has sent three replies with pairwise different strings, the
\* third being "MTTS 77" (77 = 64 + 8 + 4 + 1), the mask has been applied:
\* encoding is "utf8", screen_reader is set, color is at least 2, and the round
\* counter has reached 2.
C15_Round2 ==
    [][(Called("handle_sub") /\ call'.replies = Len(TtypeReplies))
       => /\ config'.encoding = "utf8"
          /\ config'.screen_reader = TRUE
          /\ config'.color >= 2
          /\ ttype_count' = 2]_vars
\* the SubNegotiate events this step appended
SubNegotiatesAppended == LET IsSub(ev) == ev.type = "SubNegotiate" IN SelectSeq(Appended, IsSub)

\* C16 - a WILL for tracked, not yet remote-enabled terminal-type enables it and
\* appends the DO reply (when the engine had not asked) followed by exactly one
\* SubNegotiate(TTYPE, [1]); a WILL for remote-enabled terminal-type or for any
\* other option appends no SubNegotiate.
C16_TtypeRequest ==
    [][(Called("receive_negotiate") /\ call'.command = WILL)
       => IF /\ call'.op = TTYPE
             /\ TTYPE \in DOMAIN op_state
             /\ ~op_state[TTYPE].remote.enabled
          THEN /\ op_state'[TTYPE].remote.enabled
               /\ Appended = (IF op_state[TTYPE].remote.negotiating THEN <<>>
                              ELSE <<Negotiate(DO, TTYPE)>>)
                             \o <<SubNegotiate(TTYPE, <<1>>)>>
          ELSE SubNegotiatesAppended = <<>>]_vars

\* the peer offers terminal-type unasked: the DO reply, then the request
C16_Witness ==
    /\ call.name = "receive_negotiate" /\ call.command = WILL /\ call.op = TTYPE
    /\ TTYPE \in DOMAIN op_state /\ op_state[TTYPE].remote.enabled
    /\ send_events = <<Negotiate(DO, TTYPE), SubNegotiate(TTYPE, <<1>>)>>
\* C17, as claimed - handle_sub(NAWS, payload) with a payload that is not
\* exactly 4 bytes long leaves width and height as they were and returns false.
C17_ExactlyFour ==
    [][(Called("handle_sub") /\ call'.op = NAWS /\ Len(call'.data) # 4)
       => /\ config'.width = config.width
          /\ config'.height = config.height
          /\ call'.ret = FALSE]_vars
\* C18, as claimed - an option is remote-enabled only if its registry entry
\* allows it remotely, and local-enabled only if its entry allows it locally.
C18_PostureEnforced ==
    \A x \in DOMAIN op_state :
        /\ op_state[x].remote.enabled => telnet_options[x].allow_remote
        /\ op_state[x].local.enabled => telnet_options[x].allow_local

\* C19, as claimed - after start() the pending sets are exactly the sets of
\* tracked option codes whose negotiating flag is true, on either side.
C19_PendingMirrorsFlags ==
    started
        => /\ handshakes_left.remote = {x \in DOMAIN op_state : op_state[x].remote.negotiating}
           /\ handshakes_left.local = {x \in DOMAIN op_state : op_state[x].local.negotiating}
\* C20 - a receive_negotiate or handle_sub that returns false leaves the
\* Capability Record as it was; start, send_text, send_line and send_prompt
\* never modify it; and it is modified only by handle_sub for window-size or
\* terminal-type on a tracked option and by receive_negotiate(WONT, NAWS).
C20_NoChangeReport ==
    [][/\ ((Called("receive_negotiate") \/ Called("handle_sub")) /\ call'.ret = FALSE)
            => config' = config
       /\ call'.name \in {"start", "send_text", "send_line", "send_prompt"}
            => config' = config
       /\ config' # config
            => \/ /\ Called("handle_sub")
                  /\ call'.op \in {NAWS, TTYPE}
                  /\ call'.op \in DOMAIN op_state
               \/ /\ Called("receive_negotiate")
                  /\ call'.command = WONT /\ call'.op = NAWS]_vars

\* the peer repeats the size it has already reported: false, nothing changed
C20_Witness ==
    /\ call.name = "handle_sub" /\ call.op = NAWS /\ call.data = P_80x24
    /\ call.ret = FALSE
    /\ call.before.width = 80
    /\ config = call.before
====
